---- MODULE Spec2Model ----
(***************************************************************************)
(* Natural-selection simulation (Entity, Food, Simulation.update).        *)
(*                                                                         *)
(* Fixed-point representation of the program's floats:                     *)
(*   positions, distances, speed : tenths of a world unit  (Tenths)        *)
(*   energy                      : thousandths of a point  (Milli)         *)
(*   trait values                : tenths (Speed 1.3 is 13)                *)
(* With traits in tenths every energy amount of the program is a whole     *)
(* number of thousandths: the movement cost 0.05 * speed * Size is         *)
(* Speed * Size thousandths.  Distances are compared through their         *)
(* squares, which is exact.  Only the step of move is rounded (to a tenth, *)
(* toward zero).                                                           *)
(***************************************************************************)
EXTENDS Integers, Sequences, FiniteSets, TLC

VARIABLES
    preys,          \* Simulation.preys      : sequence of entities
    predators,      \* Simulation.predators  : sequence of entities
    foods,          \* Simulation.foods      : sequence of food items
    generation,     \* Simulation.generation
    max_preys,      \* Simulation.max_preys
    max_predators,  \* Simulation.max_predators
    nextId,         \* next fresh object identity
    tick,           \* history: what the last completed update did
    consumed,       \* history: the food items removed so far, in order
    ent,            \* the entity of the single-entity specification
    call,           \* history: the last method call on ent
    calls,          \* number of method calls made on ent
    running,        \* main loop: running
    paused,         \* main loop: paused
    frames,         \* number of iterations the main loop has made
    frame           \* history: what the last iteration of the main loop did

vars == <<preys, predators, foods, generation, max_preys, max_predators,
          nextId, tick, consumed, ent, call, calls,
          running, paused, frames, frame>>

worldVars == <<preys, predators, foods, generation, max_preys, max_predators,
               nextId, tick, consumed>>

entVars == <<ent, call, calls>>

loopVars == <<running, paused, frames, frame>>

----------------------------------------------------------------------------
(* Program constants *)

WIDTH == 800

HEIGHT == 600

NumPreys == 20

NumPredators == 5

NumFoods == 30

(* Bounds of the model *)

MaxGen == 4

MaxCalls == 2

MaxFrames == 2

----------------------------------------------------------------------------
(* Arithmetic helpers *)

Tenths(n) == 10 * n

Milli(n) == 1000 * n

Max(a, b) == IF a >= b THEN a ELSE b

Min(a, b) == IF a <= b THEN a ELSE b

\* a / b rounded toward zero, b > 0
Quot(a, b) == IF a < 0 THEN -((-a) \div b) ELSE a \div b

RECURSIVE SqrtBetween(_, _, _)
\* the largest r in lo..hi with r * r <= n (lo * lo <= n < (hi + 1)^2)
SqrtBetween(n, lo, hi) ==
    IF lo >= hi THEN lo
    ELSE LET mid == (lo + hi + 1) \div 2
         IN  IF mid * mid <= n THEN SqrtBetween(n, mid, hi)
             ELSE SqrtBetween(n, lo, mid - 1)

\* math.sqrt, rounded down to a whole number of tenths
ISqrt(n) == SqrtBetween(n, 0, 40000)

DistSq(ax, ay, bx, by) == (bx - ax) * (bx - ax) + (by - ay) * (by - ay)

----------------------------------------------------------------------------
(* Entity *)

TRAIT_NAMES == {"Speed", "Size", "Camouflage"}

\* max(0.1, min(2.0, v)) on a trait in tenths
ClampTrait(v) == Max(1, Min(20, v))

\* one pass of the mutation loop on one trait: m.hit is random.random() < 0.2,
\* m.d the draw of random.uniform(-0.2, 0.2) in tenths
Mutate(v, m) == IF m.hit THEN ClampTrait(v + m.d) ELSE v

\* Entity.__init__(x, y, traits, is_predator).  traits is <<>> for None and
\* <<t>> for a given trait record; r holds the random draws of the call:
\* r.max_age, r.Speed, r.Size, r.Camouflage (founder samples) and r.mut.
EntityInit(id, x, y, traits, is_predator, r) ==
    LET t0 == IF traits = <<>>
              THEN [Speed |-> r.Speed, Size |-> r.Size, Camouflage |-> r.Camouflage]
              ELSE traits[1]
        t  == [Speed      |-> Mutate(t0.Speed, r.mut.Speed),
               Size       |-> Mutate(t0.Size, r.mut.Size),
               Camouflage |-> Mutate(t0.Camouflage, r.mut.Camouflage)]
    IN  [id          |-> id,
         x           |-> x,
         y           |-> y,
         energy      |-> Milli(100),
         age         |-> 0,
         max_age     |-> r.max_age,
         is_predator |-> is_predator,
         traits      |-> t,
         radius      |-> (5 * t.Size) \div 10,
         speed       |-> 2 * t.Speed,
         camouflage  |-> t.Camouflage]

\* the energy cost of two moves
MoveCost_Twice(e) == e.speed * e.traits.Size

\* the energy cost of one move: 0.05 * speed * Size
MoveCost(e) == (e.speed * e.traits.Size) \div 2

\* move with the bounds taken as [0, WIDTH] and [0, HEIGHT], the radius forgotten
move_NoRadius(e, target_x, target_y) ==
    LET dx   == target_x - e.x
        dy   == target_y - e.y
        dist == Max(1, ISqrt(dx * dx + dy * dy))
        nx   == e.x + Quot(dx * e.speed, dist)
        ny   == e.y + Quot(dy * e.speed, dist)
    IN  [e EXCEPT
           !.x = Max(0, Min(Tenths(WIDTH), nx)),
           !.y = Max(0, Min(Tenths(HEIGHT), ny)),
           !.energy = e.energy - MoveCost(e)]

\* Entity.move(target_x, target_y)
move(e, target_x, target_y) ==
    LET dx   == target_x - e.x
        dy   == target_y - e.y
        dist == Max(1, ISqrt(dx * dx + dy * dy))
        nx   == e.x + Quot(dx * e.speed, dist)
        ny   == e.y + Quot(dy * e.speed, dist)
    IN  [e EXCEPT
           !.x = Max(Tenths(e.radius), Min(Tenths(WIDTH - e.radius), nx)),
           !.y = Max(Tenths(e.radius), Min(Tenths(HEIGHT - e.radius), ny)),
           !.energy = e.energy - MoveCost(e)]

\* the detection range with the camouflage of other left out
DetectionRange_NoCamouflage(self, other, is_predator_view) ==
    LET size10 == IF is_predator_view THEN 10 ELSE self.traits.Size
    IN  15 * size10 * 10

\* detection range of self for other, in tenths
DetectionRange(self, other, is_predator_view) ==
    LET size10 == IF is_predator_view THEN 10 ELSE self.traits.Size
        camo10 == IF ~other.is_predator THEN 10 - other.camouflage ELSE 10
    IN  15 * size10 * camo10

\* Entity.can_see(other, is_predator_view): dist < detection_range
can_see(self, other, is_predator_view) ==
    LET range == DetectionRange(self, other, is_predator_view)
    IN  /\ range > 0
        /\ DistSq(self.x, self.y, other.x, other.y) < range * range

\* reproduce with the energy test written >= 150
reproduce_AtThreshold(e, id, r) ==
    IF e.energy >= Milli(150) /\ r.coin
    THEN LET child_traits ==
                 [Speed      |-> ClampTrait(e.traits.Speed + r.d.Speed),
                  Size       |-> ClampTrait(e.traits.Size + r.d.Size),
                  Camouflage |-> ClampTrait(e.traits.Camouflage + r.d.Camouflage)]
         IN  [self  |-> [e EXCEPT !.energy = e.energy - Milli(50)],
              child |-> <<EntityInit(id, e.x + r.jx, e.y + r.jy,
                                     <<child_traits>>, e.is_predator, r.birth)>>]
    ELSE [self |-> e, child |-> <<>>]

\* Entity.reproduce().  r.coin is random.random() < 0.01, r.d the three
\* perturbations uniform(-0.1, 0.1), r.jx and r.jy the position jitter,
\* r.birth the draws of the child's Entity.__init__.  The result is
\* [self |-> the parent after the call, child |-> <<>> or <<offspring>>].
reproduce(e, id, r) ==
    IF e.energy > Milli(150) /\ r.coin
    THEN LET child_traits ==
                 [Speed      |-> ClampTrait(e.traits.Speed + r.d.Speed),
                  Size       |-> ClampTrait(e.traits.Size + r.d.Size),
                  Camouflage |-> ClampTrait(e.traits.Camouflage + r.d.Camouflage)]
         IN  [self  |-> [e EXCEPT !.energy = e.energy - Milli(50)],
              child |-> <<EntityInit(id, e.x + r.jx, e.y + r.jy,
                                     <<child_traits>>, e.is_predator, r.birth)>>]
    ELSE [self |-> e, child |-> <<>>]

----------------------------------------------------------------------------
(* Food *)

\* Food.__init__(): p is the draw of the position
FoodInit(id, p) ==
    [id |-> id, x |-> p.x, y |-> p.y, energy |-> Milli(20), radius |-> 3]

----------------------------------------------------------------------------
(* Simulation.update, step by step *)

\* an upkeep that takes the energy and leaves the age
Upkeep_NoAging(es) ==
    [i \in 1..Len(es) |-> [es[i] EXCEPT !.energy = @ - 100]]

\* lines 162-164: every agent ages by one and pays 0.1 energy
Upkeep(es) ==
    [i \in 1..Len(es) |-> [es[i] EXCEPT !.age = @ + 1, !.energy = @ - 100]]

\* the condition with both comparisons made inclusive
Survives_Inclusive(e) == e.energy >= 0 /\ e.age <= e.max_age

\* the condition of the two list comprehensions of lines 167 and 170
Survives(e) == e.energy > 0 /\ e.age < e.max_age

\* lines 167, 170: keep the agents that pass the condition, in order
Cull(es) == SelectSeq(es, Survives)

\* replenishment with the test made for fewer than 9 items
Replenish_Below9(fs, id, r) ==
    IF r.foodCoin \/ Len(fs) < 9 THEN Append(fs, FoodInit(id, r.food)) ELSE fs

\* replenishment by the coin alone, without the test for fewer than 10 items
Replenish_CoinOnly(fs, id, r) ==
    IF r.foodCoin THEN Append(fs, FoodInit(id, r.food)) ELSE fs

\* lines 173-174: r.foodCoin is random.random() < 0.05, r.food the new position
Replenish(fs, id, r) ==
    IF r.foodCoin \/ Len(fs) < 10 THEN Append(fs, FoodInit(id, r.food)) ELSE fs

\* list.remove(x) and "x in list" on objects: the first element that is x
IndexOfId(s, id) ==
    IF \E k \in 1..Len(s) : s[k].id = id
    THEN CHOOSE k \in 1..Len(s) :
             /\ s[k].id = id
             /\ \A j \in 1..(k - 1) : s[j].id # id
    ELSE 0

RemoveAt(s, k) == [j \in 1..(Len(s) - 1) |-> IF j < k THEN s[j] ELSE s[j + 1]]

\* a removal that takes the first element, whatever was asked for
ListRemove_First(s, id) ==
    IF s = <<>> THEN s ELSE RemoveAt(s, 1)

ListRemove(s, id) ==
    LET k == IndexOfId(s, id) IN IF k = 0 THEN s ELSE RemoveAt(s, k)

\* a scan that replaces its best on a smaller or equal distance
FirstNearest_LastWins(ks, d) ==
    IF ks = {} THEN 0
    ELSE CHOOSE k \in ks :
             \A j \in ks : d[k] < d[j] \/ (d[k] = d[j] /\ k >= j)

\* the first index of ks whose distance d[k] is the least: what a scan that
\* replaces its best only on a strictly smaller distance ends with; 0 is None
FirstNearest(ks, d) ==
    IF ks = {} THEN 0
    ELSE CHOOSE k \in ks :
             \A j \in ks : d[k] < d[j] \/ (d[k] = d[j] /\ k <= j)

\* lines 179-187: the scan for the nearest food
NearestFood(prey, fs) ==
    FirstNearest(1..Len(fs),
                 [k \in 1..Len(fs) |-> DistSq(prey.x, prey.y, fs[k].x, fs[k].y)])

\* lines 190-199: the nearest predator among those that see the prey
NearestPredator(prey, ps) ==
    FirstNearest({k \in 1..Len(ps) : can_see(ps[k], prey, TRUE)},
                 [k \in 1..Len(ps) |-> DistSq(prey.x, prey.y, ps[k].x, ps[k].y)])

\* lines 232-241: the nearest prey among those the predator sees
NearestPrey(predator, ps) ==
    FirstNearest({k \in 1..Len(ps) : can_see(predator, ps[k], TRUE)},
                 [k \in 1..Len(ps) |->
                     DistSq(predator.x, predator.y, ps[k].x, ps[k].y)])

\* dist < a.radius + b.radius
Touches(a, b) ==
    DistSq(a.x, a.y, b.x, b.y)
      < Tenths(a.radius + b.radius) * Tenths(a.radius + b.radius)

\* lines 178-227: the body of the prey loop for the prey at index i.
\* w is [preys, predators, foods, nextId]; the result is the world after the
\* body and the record of the visit: the agent before and after, the branch
\* taken, the object moved toward or away from (target), the object reached
\* (took), whether it was removed from its collection, and the offspring.
PreyStep(w, i, r) ==
    LET prey == w.preys[i]
        nf   == NearestFood(prey, w.foods)
        np   == NearestPredator(prey, w.predators)
        flee == /\ np # 0
                /\ DistSq(prey.x, prey.y, w.predators[np].x, w.predators[np].y)
                     < Tenths(100) * Tenths(100)
        branch == IF flee THEN "flee" ELSE IF nf # 0 THEN "forage" ELSE "wander"
        moved == CASE branch = "flee" ->
                        move(prey, 2 * prey.x - w.predators[np].x,
                                   2 * prey.y - w.predators[np].y)
                   [] branch = "forage" ->
                        move(prey, w.foods[nf].x, w.foods[nf].y)
                   [] OTHER ->
                        move(prey, prey.x + r.off.dx, prey.y + r.off.dy)
        eats == branch = "forage" /\ Touches(moved, w.foods[nf])
        fed  == IF eats THEN [moved EXCEPT !.energy = @ + w.foods[nf].energy]
                ELSE moved
        fs   == IF eats THEN ListRemove(w.foods, w.foods[nf].id) ELSE w.foods
        rep  == reproduce(fed, w.nextId, r.repro)
    IN  [w |-> [preys     |-> [w.preys EXCEPT ![i] = rep.self] \o rep.child,
                predators |-> w.predators,
                foods     |-> fs,
                nextId    |-> w.nextId + Len(rep.child)],
         visit |-> [id |-> prey.id, branch |-> branch,
                    before |-> prey, after |-> rep.self,
                    target |-> CASE branch = "flee" -> <<w.predators[np]>>
                                 [] branch = "forage" -> <<w.foods[nf]>>
                                 [] OTHER -> <<>>,
                    took  |-> IF eats THEN <<w.foods[nf].id>> ELSE <<>>,
                    removed |-> eats,
                    child |-> [k \in 1..Len(rep.child) |-> rep.child[k].id]]]

RECURSIVE PreyPhase(_, _, _, _)
\* line 177: "for prey in self.preys" walks the live list by index, so it
\* runs until the index passes the current end of the list
PreyPhase(w, i, r, visits) ==
    IF i > Len(w.preys) THEN [w |-> w, visits |-> visits]
    ELSE LET s == PreyStep(w, i, r)
         IN  PreyPhase(s.w, i + 1, r, Append(visits, s.visit))

\* the body of the predator loop with the capture not removing the prey
PredatorStep_KeepsPrey(w, i, r) ==
    LET predator == w.predators[i]
        np     == NearestPrey(predator, w.preys)
        branch == IF np # 0 THEN "hunt" ELSE "wander"
        moved  == IF np # 0
                  THEN move(predator, w.preys[np].x, w.preys[np].y)
                  ELSE move(predator, predator.x + r.off.dx, predator.y + r.off.dy)
        catches == np # 0 /\ Touches(moved, w.preys[np])
        fed    == IF catches THEN [moved EXCEPT !.energy = @ + Milli(30)] ELSE moved
        rep    == reproduce(fed, w.nextId, r.repro)
    IN  [w |-> [preys     |-> w.preys,
                predators |-> [w.predators EXCEPT ![i] = rep.self] \o rep.child,
                foods     |-> w.foods,
                nextId    |-> w.nextId + Len(rep.child)],
         visit |-> [id |-> predator.id, branch |-> branch,
                    before |-> predator, after |-> rep.self,
                    target |-> IF np # 0 THEN <<w.preys[np]>> ELSE <<>>,
                    took  |-> IF catches THEN <<w.preys[np].id>> ELSE <<>>,
                    removed |-> FALSE,
                    child |-> [k \in 1..Len(rep.child) |-> rep.child[k].id]]]

\* lines 231-266: the body of the predator loop for the predator at index i
PredatorStep(w, i, r) ==
    LET predator == w.predators[i]
        np     == NearestPrey(predator, w.preys)
        branch == IF np # 0 THEN "hunt" ELSE "wander"
        moved  == IF np # 0
                  THEN move(predator, w.preys[np].x, w.preys[np].y)
                  ELSE move(predator, predator.x + r.off.dx, predator.y + r.off.dy)
        catches == np # 0 /\ Touches(moved, w.preys[np])
        fed    == IF catches THEN [moved EXCEPT !.energy = @ + Milli(30)] ELSE moved
        present == catches /\ IndexOfId(w.preys, w.preys[np].id) # 0
        ps     == IF present THEN ListRemove(w.preys, w.preys[np].id) ELSE w.preys
        rep    == reproduce(fed, w.nextId, r.repro)
    IN  [w |-> [preys     |-> ps,
                predators |-> [w.predators EXCEPT ![i] = rep.self] \o rep.child,
                foods     |-> w.foods,
                nextId    |-> w.nextId + Len(rep.child)],
         visit |-> [id |-> predator.id, branch |-> branch,
                    before |-> predator, after |-> rep.self,
                    target |-> IF np # 0 THEN <<w.preys[np]>> ELSE <<>>,
                    took  |-> IF catches THEN <<w.preys[np].id>> ELSE <<>>,
                    removed |-> present,
                    child |-> [k \in 1..Len(rep.child) |-> rep.child[k].id]]]

RECURSIVE PredatorPhase(_, _, _, _)
\* line 230: "for predator in self.predators", again over the live list
PredatorPhase(w, i, r, visits) ==
    IF i > Len(w.predators) THEN [w |-> w, visits |-> visits]
    ELSE LET s == PredatorStep(w, i, r)
         IN  PredatorPhase(s.w, i + 1, r, Append(visits, s.visit))

\* lines 273-274: the prey floor; r.spawn holds the draws of the new founder
PreyFloor(ps, id, r) ==
    IF Len(ps) < 5
    THEN Append(ps, EntityInit(id, r.spawn.x, r.spawn.y, <<>>, FALSE, r.spawn.birth))
    ELSE ps

\* lines 276-277: the predator floor
PredatorFloor(ps, id, r) ==
    IF Len(ps) < 2
    THEN Append(ps, EntityInit(id, r.spawn.x, r.spawn.y, <<>>, TRUE, r.spawn.birth))
    ELSE ps

\* Simulation.update(), lines 161-266: upkeep, culling, replenishment and the
\* two phases.  s is the simulation, r the random draws of these lines.  The
\* result is the world after the phases, with the record of the steps.
UpdatePhases(s, r) ==
    LET upPreys  == Upkeep(s.preys)
        upPreds  == Upkeep(s.predators)
        cuPreys  == Cull(upPreys)
        cuPreds  == Cull(upPreds)
        fs       == Replenish(s.foods, s.nextId, r)
        w0       == [preys |-> cuPreys, predators |-> cuPreds, foods |-> fs,
                     nextId |-> s.nextId + (Len(fs) - Len(s.foods))]
        a        == PreyPhase(w0, 1, r, <<>>)
        b        == PredatorPhase(a.w, 1, r, <<>>)
    IN  [w    |-> b.w,
         tick |-> [done       |-> TRUE,
                   before     |-> [preys |-> s.preys, predators |-> s.predators,
                                   foods |-> s.foods],
                   upkept     |-> [preys |-> upPreys, predators |-> upPreds],
                   culled     |-> [preys |-> cuPreys, predators |-> cuPreds],
                   foods      |-> fs,
                   preyVisits |-> a.visits,
                   afterPreys |-> a.w,
                   predVisits |-> b.visits,
                   afterPreds |-> b.w]]

\* a statistic that follows the count, up and down
Statistic_Latest(m, es) == Len(es)

\* lines 269-270: max(self.max_preys, len(self.preys))
Statistic(m, es) == Max(m, Len(es))

\* Simulation.update(), lines 268-279: statistics, population floor and the
\* generation counter.  p is the result of UpdatePhases, sp the draws of the
\* founders the floor spawns.
UpdateEnd(s, p, sp) ==
    LET r        == [spawn |-> sp]
        maxPreys == Statistic(s.max_preys, p.w.preys)
        maxPreds == Statistic(s.max_predators, p.w.predators)
        flPreys  == PreyFloor(p.w.preys, p.w.nextId, r)
        id1      == p.w.nextId + (Len(flPreys) - Len(p.w.preys))
        flPreds  == PredatorFloor(p.w.predators, id1, r)
        id2      == id1 + (Len(flPreds) - Len(p.w.predators))
    IN  [preys         |-> flPreys,
         predators     |-> flPreds,
         foods         |-> p.w.foods,
         generation    |-> s.generation + 1,
         max_preys     |-> maxPreys,
         max_predators |-> maxPreds,
         nextId        |-> id2,
         tick          |-> p.tick]

\* Simulation.update()
update(s, r) == UpdateEnd(s, UpdatePhases(s, r), r.spawn)

----------------------------------------------------------------------------
(* Random draws.  Every draw of the program is taken from a small set that   *)
(* holds the ends of its range and values that decide a branch.              *)

Pt(x, y) == [x |-> x, y |-> y]

\* three places of the world: its centre, a point 360 away, and the
\* corner (0, 0), all of them results of random.uniform(0, WIDTH or HEIGHT)
Centre == Pt(Tenths(400), Tenths(300))

Aside == Pt(Tenths(100), Tenths(100))

Corner == Pt(0, 0)

NoMut == [hit |-> FALSE, d |-> 0]

MutDraws == {NoMut, [hit |-> TRUE, d |-> -2], [hit |-> TRUE, d |-> 2]}

NoMuts == [Speed |-> NoMut, Size |-> NoMut, Camouflage |-> NoMut]

\* the mutation draws of one Entity.__init__: no trait hit, every trait hit
\* by the least or by the greatest change, one trait hit alone
MutsDraws ==
    {[Speed |-> m, Size |-> m, Camouflage |-> m] : m \in MutDraws}
      \cup {[NoMuts EXCEPT ![t] = m] : t \in TRAIT_NAMES, m \in MutDraws}

\* the draws of one Entity.__init__: the ends of randint(500, 1000) and of
\* the three uniform founder samples
BirthDraws ==
    [max_age : {500, 1000}, Speed : {5, 20}, Size : {5, 20}, Camouflage : {0, 10},
     mut : MutsDraws]

\* a middling agent: radius 5, speed 2, seen by predators from 75 away
Plain ==
    [max_age |-> 500, Speed |-> 10, Size |-> 10, Camouflage |-> 5, mut |-> NoMuts]

\* a big slow agent: radius 10, speed 1, Camouflage 1.0
Big ==
    [max_age |-> 1000, Speed |-> 5, Size |-> 20, Camouflage |-> 10, mut |-> NoMuts]

\* a fast agent whose Camouflage is mutated
Quick ==
    [max_age |-> 1000, Speed |-> 20, Size |-> 16, Camouflage |-> 0,
     mut |-> [Speed |-> NoMut, Size |-> NoMut, Camouflage |-> [hit |-> TRUE, d |-> 2]]]

\* an agent whose Camouflage of 1.0 is mutated to 1.2
Hidden ==
    [max_age |-> 500, Speed |-> 10, Size |-> 10, Camouflage |-> 10,
     mut |-> [Speed |-> NoMut, Size |-> NoMut, Camouflage |-> [hit |-> TRUE, d |-> 2]]]

NoRepro ==
    [coin |-> FALSE, d |-> [Speed |-> 0, Size |-> 0, Camouflage |-> 0],
     jx |-> 0, jy |-> 0, birth |-> Plain]

\* the draws of one reproduce() in a tick
ReproDraws ==
    {NoRepro,
     [coin |-> TRUE, d |-> [Speed |-> 1, Size |-> -1, Camouflage |-> 1],
      jx |-> Tenths(20), jy |-> -Tenths(20), birth |-> Quick]}

\* the draws of one update(); every call of the random source of one kind
\* within the update returns that kind's draw
FoodDraws == {Centre, Aside}

WanderDraws == {[dx |-> Tenths(50), dy |-> -Tenths(50)]}

SpawnDraws ==
    {[x |-> Centre.x, y |-> Centre.y, birth |-> Plain],
     [x |-> Corner.x, y |-> Corner.y, birth |-> Big]}

----------------------------------------------------------------------------
(* State *)

NoTick ==
    [done |-> FALSE,
     before |-> [preys |-> <<>>, predators |-> <<>>, foods |-> <<>>],
     upkept |-> [preys |-> <<>>, predators |-> <<>>],
     culled |-> [preys |-> <<>>, predators |-> <<>>],
     foods |-> <<>>, preyVisits |-> <<>>,
     afterPreys |-> [preys |-> <<>>, predators |-> <<>>, foods |-> <<>>, nextId |-> 0],
     predVisits |-> <<>>,
     afterPreds |-> [preys |-> <<>>, predators |-> <<>>, foods |-> <<>>, nextId |-> 0]]

NoEnt == EntityInit(0, 0, 0, <<>>, FALSE, Plain)

NoCall == [op |-> "none", before |-> NoEnt, after |-> NoEnt,
           tx |-> 0, ty |-> 0, child |-> <<>>]

NoSimulation ==
    [preys |-> <<>>, predators |-> <<>>, foods |-> <<>>, generation |-> 0,
     max_preys |-> 0, max_predators |-> 0, nextId |-> 0]

NoFrame ==
    [events |-> <<>>, before |-> NoSimulation, wasPaused |-> FALSE,
     reset |-> FALSE, handled |-> NoSimulation]

\* lines 333-334: running = True, paused = False; no iteration made yet
LoopInit ==
    /\ running = TRUE
    /\ paused = FALSE
    /\ frames = 0
    /\ frame = NoFrame

\* Simulation.__init__(): 20 prey, 5 predators, 30 food items, counters 0.
\* d.prey[i], d.predator[i] and d.food[i] are the draws of the i-th object;
\* the objects are new, with the identities first, first + 1, ...
SimulationNew(d, first) ==
    [preys |-> [i \in 1..NumPreys |->
                   EntityInit(first + i - 1, d.prey[i].x, d.prey[i].y, <<>>, FALSE,
                              d.prey[i].birth)],
     predators |-> [i \in 1..NumPredators |->
                   EntityInit(first + NumPreys + i - 1, d.predator[i].x,
                              d.predator[i].y, <<>>, TRUE, d.predator[i].birth)],
     foods |-> [i \in 1..NumFoods |->
                   FoodInit(first + NumPreys + NumPredators + i - 1, d.food[i])],
     generation |-> 0,
     max_preys |-> 0,
     max_predators |-> 0,
     nextId |-> first + NumPreys + NumPredators + NumFoods]

\* simulation = Simulation() of line 330: the first objects of the run
SimulationInit(d) == SimulationNew(d, 1)

\* the founder draws: the prey stand at one place with one trait vector, so
\* do the predators, and the food lies at one place
FounderDraws ==
    { [prey     |-> [i \in 1..NumPreys |-> [x |-> pp.x, y |-> pp.y, birth |-> pb]],
       predator |-> [i \in 1..NumPredators |-> [x |-> dp.x, y |-> dp.y, birth |-> db]],
       food     |-> [i \in 1..NumFoods |-> fp]] :
        pp \in {Centre, Aside}, pb \in {Plain, Big},
        dp \in {Centre}, db \in {Plain, Quick}, fp \in {Centre, Aside} }

\* the simulation is s, and no update has been made yet
StartsAs(s) ==
    /\ preys = s.preys
    /\ predators = s.predators
    /\ foods = s.foods
    /\ generation = s.generation
    /\ max_preys = s.max_preys
    /\ max_predators = s.max_predators
    /\ nextId = s.nextId

Init ==
    /\ \E d \in FounderDraws : StartsAs(SimulationInit(d))
    /\ tick = NoTick
    /\ consumed = <<>>
    /\ ent = NoEnt
    /\ call = NoCall
    /\ calls = 0
    /\ LoopInit

Simulation ==
    [preys |-> preys, predators |-> predators, foods |-> foods,
     generation |-> generation, max_preys |-> max_preys,
     max_predators |-> max_predators, nextId |-> nextId]

\* The draws an update makes.  A draw the update does not make is left at a
\* fixed value: the position of a food item is drawn only when one is added,
\* the draws of an offspring only when some agent can pass the energy test of
\* reproduce in this update, the draws of a founder only when a floor spawns.
FoodDrawsOf(s, coin) ==
    IF coin \/ Len(s.foods) < 10 THEN FoodDraws ELSE {Centre}

CanReachReproduction(e) == e.energy + Milli(30) > Milli(150)

ReproDrawsOf(s) ==
    IF \/ \E k \in 1..Len(s.preys) : CanReachReproduction(s.preys[k])
       \/ \E k \in 1..Len(s.predators) : CanReachReproduction(s.predators[k])
    THEN ReproDraws ELSE {NoRepro}

SpawnDrawsOf(p) ==
    IF Len(p.w.preys) < 5 \/ Len(p.w.predators) < 2
    THEN SpawnDraws ELSE {[x |-> Centre.x, y |-> Centre.y, birth |-> Plain]}

RECURSIVE Eaten(_)
\* the food items the visits of one prey phase removed, in order
Eaten(visits) ==
    IF visits = <<>> THEN <<>>
    ELSE (IF Head(visits).removed THEN Head(visits).took ELSE <<>>)
           \o Eaten(Tail(visits))

\* one call of Simulation.update() (line 350)
Tick ==
    /\ generation < MaxGen
    /\ \E coin \in BOOLEAN, off \in WanderDraws :
       \E fd \in FoodDrawsOf(Simulation, coin), rp \in ReproDrawsOf(Simulation) :
       \E p \in {UpdatePhases(Simulation, [foodCoin |-> coin, food |-> fd,
                                            off |-> off, repro |-> rp])} :
       \E sp \in SpawnDrawsOf(p) :
       \E s \in {UpdateEnd(Simulation, p, sp)} :
             /\ preys' = s.preys
             /\ predators' = s.predators
             /\ foods' = s.foods
             /\ generation' = s.generation
             /\ max_preys' = s.max_preys
             /\ max_predators' = s.max_predators
             /\ nextId' = s.nextId
             /\ tick' = s.tick
             /\ consumed' = consumed \o Eaten(s.tick.preyVisits)
    /\ UNCHANGED entVars
    /\ UNCHANGED loopVars

Next == Tick

Spec == Init /\ [][Next]_vars

----------------------------------------------------------------------------
(* One entity on its own: Entity.__init__, move and reproduce applied to an  *)
(* entity in any state the simulation can put it in.                         *)

\* a place 20 outside the world, where the jitter of reproduce can put the
\* offspring of a parent standing at the wall
Outside == Pt(-Tenths(20), Tenths(HEIGHT + 20))

EntityPts == {Centre, Corner, Outside}

\* the newborn energy, the two sides of the reproduction threshold, and the
\* energy of a well-fed agent
EntityEnergies == {Milli(100), Milli(150), Milli(150) + 1, Milli(200)}

\* targets of a move: given by d, or the position of the entity itself
MoveTargets(e) == {Pt(e.x, e.y), Centre, Pt(-Tenths(100), Tenths(HEIGHT + 100))}

\* the draws of a reproduce() called on its own
EntityReproDraws ==
    {NoRepro}
      \cup {[coin |-> TRUE, d |-> [Speed |-> v, Size |-> v, Camouflage |-> v],
             jx |-> j, jy |-> -j,
             birth |-> [Plain EXCEPT !.mut = m]] :
               v \in {-1, 1}, j \in {Tenths(20)},
               m \in {NoMuts,
                      [Speed |-> [hit |-> TRUE, d |-> 2], Size |-> NoMut,
                       Camouflage |-> [hit |-> TRUE, d |-> -2]]}}

EntityInitial ==
    /\ preys = <<>>
    /\ predators = <<>>
    /\ foods = <<>>
    /\ generation = 0
    /\ max_preys = 0
    /\ max_predators = 0
    /\ nextId = 2
    /\ tick = NoTick
    /\ consumed = <<>>
    /\ \E b \in BirthDraws, p \in EntityPts, pred \in BOOLEAN, en \in EntityEnergies :
         \E e \in {EntityInit(1, p.x, p.y, <<>>, pred, b)} :
            /\ ent = [e EXCEPT !.energy = en]
            /\ call = [op |-> "init", before |-> e, after |-> e,
                       tx |-> 0, ty |-> 0, child |-> <<>>]
    /\ calls = 0
    /\ LoopInit

\* ent.move(t.x, t.y)
CallMove ==
    /\ calls < MaxCalls
    /\ \E t \in MoveTargets(ent) :
       \E e \in {move(ent, t.x, t.y)} :
          /\ ent' = e
          /\ call' = [op |-> "move", before |-> ent, after |-> e,
                      tx |-> t.x, ty |-> t.y, child |-> <<>>]
    /\ calls' = calls + 1
    /\ UNCHANGED worldVars
    /\ UNCHANGED loopVars

\* ent.reproduce()
CallReproduce ==
    /\ calls < MaxCalls
    /\ \E r \in EntityReproDraws :
       \E res \in {reproduce(ent, nextId, r)} :
          /\ ent' = res.self
          /\ call' = [op |-> "reproduce", before |-> ent, after |-> res.self,
                      tx |-> 0, ty |-> 0, child |-> res.child]
    /\ calls' = calls + 1
    /\ UNCHANGED worldVars
    /\ UNCHANGED loopVars

EntityNext == CallMove \/ CallReproduce

SpecEntity == EntityInitial /\ [][EntityNext]_vars

----------------------------------------------------------------------------
(* A small world in the middle of a run.  The populations have shrunk to    *)
(* one to three agents; each agent is in a state that ticks of upkeep,      *)
(* movement, feeding and predation lead to.                                 *)

\* a place 3 away from the centre, within reach of an agent standing there
Near == Pt(Centre.x + Tenths(3), Centre.y)

\* an agent born with draws b that has since reached energy en and age a at p
Agent(id, p, is_predator, b, en, a) ==
    [EntityInit(id, p.x, p.y, <<>>, is_predator, b) EXCEPT !.energy = en, !.age = a]

\* energy and age of an agent: newborn; well fed; with 0.15 energy left;
\* with 0.1 energy left; in the last tick of its age
Newborn == [energy |-> Milli(100), age |-> 0]

Fed == [energy |-> Milli(200), age |-> 100]

Starving == [energy |-> 150, age |-> 450]

Spent == [energy |-> 100, age |-> 450]

Aged(b) == [energy |-> Milli(60), age |-> b.max_age - 1]

FirstPreys ==
    {Agent(1, p, FALSE, Plain, c.energy, c.age) :
        p \in {Centre, Near}, c \in {Newborn, Fed, Starving, Spent, Aged(Plain)}}
      \cup {Agent(1, p, FALSE, Big, c.energy, c.age) :
               p \in {Centre, Near}, c \in {Newborn, Fed}}
      \cup {Agent(1, Near, FALSE, Hidden, Newborn.energy, Newborn.age)}

SecondPreys ==
    {Agent(2, Near, FALSE, Plain, c.energy, c.age) : c \in {Fed, Starving, Spent}}

WorldPreys ==
    {<<a>> : a \in FirstPreys} \cup {<<a, b>> : a \in FirstPreys, b \in SecondPreys}

WorldPredators ==
    {<<Agent(3, Centre, TRUE, Plain, c.energy, c.age)>> :
        c \in {Newborn, Starving, Spent, Aged(Plain)}}
      \cup {<<Agent(3, Aside, TRUE, Plain, Fed.energy, Fed.age)>>,
             <<Agent(3, Centre, TRUE, Plain, Newborn.energy, Newborn.age),
               Agent(4, Centre, TRUE, Quick, Milli(125), 50)>>}

WorldFoods ==
    {<<>>, <<FoodInit(5, Centre)>>, <<FoodInit(5, Centre), FoodInit(6, Near)>>}

\* the world holds ps, ds and fs, two updates before the bound on the run
WorldOf(ps, ds, fs) ==
    [preys |-> ps, predators |-> ds, foods |-> fs,
     generation |-> MaxGen - 2,
     max_preys |-> NumPreys, max_predators |-> NumPredators,
     nextId |-> 7]

NoEntityCall ==
    /\ tick = NoTick
    /\ consumed = <<>>
    /\ ent = NoEnt
    /\ call = NoCall
    /\ calls = 0
    /\ LoopInit

WorldInit ==
    /\ \E ps \in WorldPreys, ds \in WorldPredators, fs \in WorldFoods :
          StartsAs(WorldOf(ps, ds, fs))
    /\ NoEntityCall

SpecWorld == WorldInit /\ [][Next]_vars

\* an update() has returned: line 279 has counted it
Updated == generation < MaxGen /\ generation' = generation + 1

\* the main loop goes on calling update() (line 350): an update is made
\* whenever one can be
SpecWorldFair == WorldInit /\ [][Next]_vars /\ WF_generation(Updated)

----------------------------------------------------------------------------
(* The one-prey scenarios: a simulation whose collections were set to a     *)
(* single newly made prey, no predator, and no food, one food item, or a    *)
(* stock of nine or ten items.                                              *)

\* a place on the left edge of the world
Edge == Pt(0, Centre.y)

ScenarioPlaces == {Centre, Aside, Edge, Corner}

ScenarioPreys ==
    {Agent(1, p, FALSE, b, en, 0) :
        p \in ScenarioPlaces, b \in {Plain, Big, Quick},
        en \in {Milli(100), Milli(200)}}

\* n food items lying at Aside, left of an earlier stock
Stock(n) == [k \in 1..n |-> FoodInit(100 + k, Aside)]

ScenarioInit ==
    /\ \E a \in ScenarioPreys :
       \E fs \in {<<>>, <<FoodInit(2, Pt(a.x, a.y))>>, <<FoodInit(2, Near)>>,
                   Stock(9), Stock(10)} :
          StartsAs(WorldOf(<<a>>, <<>>, fs))
    /\ NoEntityCall

SpecScenario == ScenarioInit /\ [][Next]_vars

----------------------------------------------------------------------------
(* The main loop (lines 330-365): each iteration handles the events of the  *)
(* frame and then, if not paused, calls update() once.                      *)

\* a reset that carries the statistics of the running simulation over
HandleEvent_KeepsStatistics(h, ev, d) ==
    CASE ev = "QUIT"  -> [h EXCEPT !.running = FALSE]
      [] ev = "SPACE" -> [h EXCEPT !.paused = ~h.paused]
      [] ev = "R"     -> [h EXCEPT
                            !.sim = [SimulationNew(d, h.sim.nextId) EXCEPT
                                       !.max_preys = h.sim.max_preys,
                                       !.max_predators = h.sim.max_predators],
                            !.reset = TRUE]
      [] OTHER        -> h

\* the branch of lines 339-346 for one event.  h is [running, paused, sim,
\* reset]; d holds the draws of a Simulation() the event may construct.
HandleEvent(h, ev, d) ==
    CASE ev = "QUIT"  -> [h EXCEPT !.running = FALSE]
      [] ev = "SPACE" -> [h EXCEPT !.paused = ~h.paused]
      [] ev = "R"     -> [h EXCEPT !.sim = SimulationNew(d, h.sim.nextId),
                                   !.reset = TRUE]
      [] OTHER        -> h

RECURSIVE HandleEvents(_, _, _)
\* line 338: for event in pygame.event.get()
HandleEvents(h, evs, d) ==
    IF evs = <<>> THEN h
    ELSE HandleEvents(HandleEvent(h, Head(evs), d), Tail(evs), d)

\* an update in every frame, paused or not
Updates_Always(h) == TRUE

\* line 349: if not paused
Updates(h) == ~h.paused

\* what pygame.event.get() returns in one frame: nothing, SPACE, R, both,
\* a key that is not bound followed by SPACE twice, the window closed
EventLists ==
    {<<>>, <<"SPACE">>, <<"R">>, <<"SPACE", "R">>, <<"A", "SPACE", "SPACE">>,
     <<"QUIT">>}

\* the founder draws of the main loop's simulations
LoopDraws ==
    { [prey     |-> [i \in 1..NumPreys |-> [x |-> Centre.x, y |-> Centre.y, birth |-> Plain]],
       predator |-> [i \in 1..NumPredators |-> [x |-> Centre.x, y |-> Centre.y, birth |-> db]],
       food     |-> [i \in 1..NumFoods |-> Aside]] :
        db \in {Plain, Quick} }

ResetDrawsOf(evs) ==
    IF \E k \in 1..Len(evs) : evs[k] = "R" THEN LoopDraws
    ELSE {CHOOSE d \in LoopDraws : TRUE}

\* the simulation of the next state is s
Becomes(s) ==
    /\ preys' = s.preys
    /\ predators' = s.predators
    /\ foods' = s.foods
    /\ generation' = s.generation
    /\ max_preys' = s.max_preys
    /\ max_predators' = s.max_predators
    /\ nextId' = s.nextId

\* one iteration of the loop body, lines 337-350
Frame ==
    /\ running
    /\ frames < MaxFrames
    /\ \E evs \in EventLists :
       \E d \in ResetDrawsOf(evs) :
       \E h \in {HandleEvents([running |-> running, paused |-> paused,
                                sim |-> Simulation, reset |-> FALSE], evs, d)} :
          /\ running' = h.running
          /\ paused' = h.paused
          /\ frames' = frames + 1
          /\ frame' = [events |-> evs, before |-> Simulation, wasPaused |-> paused,
                       reset |-> h.reset, handled |-> h.sim]
          /\ IF Updates(h)
             THEN \E coin \in BOOLEAN, off \in WanderDraws :
                  \E fd \in FoodDrawsOf(h.sim, coin), rp \in ReproDrawsOf(h.sim) :
                  \E p \in {UpdatePhases(h.sim, [foodCoin |-> coin, food |-> fd,
                                                  off |-> off, repro |-> rp])} :
                  \E sp \in SpawnDrawsOf(p) :
                  \E s \in {UpdateEnd(h.sim, p, sp)} :
                     /\ Becomes(s)
                     /\ tick' = s.tick
                     /\ consumed' = (IF h.reset THEN <<>> ELSE consumed)
                                       \o Eaten(s.tick.preyVisits)
             ELSE /\ Becomes(h.sim)
                  /\ tick' = IF h.reset THEN NoTick ELSE tick
                  /\ consumed' = IF h.reset THEN <<>> ELSE consumed
    /\ UNCHANGED entVars

LoopStart ==
    /\ \E d \in LoopDraws : StartsAs(SimulationInit(d))
    /\ NoEntityCall

SpecLoop == LoopStart /\ [][Frame]_vars

----------------------------------------------------------------------------
(* Properties of one entity *)

TraitsInRange(t) ==
    \A n \in TRAIT_NAMES : 1 <= t[n] /\ t[n] <= 20

\* C3: every trait vector produced at birth, for a founder or for an offspring
\* of reproduce, has Speed, Size and Camouflage in [0.1, 2.0].
\* (Violated: a founder's Camouflage is drawn from [0.0, 1.0] and is clamped
\* only if the mutation hits it.)
C3_BirthTraitsInRange ==
    /\ call.op = "init" => TraitsInRange(call.after.traits)
    /\ call.op = "reproduce" =>
          \A k \in 1..Len(call.child) : TraitsInRange(call.child[k].traits)

\* C5: reproduce yields no offspring at energy <= 150; when it yields one the
\* parent has paid exactly 50 (and keeps more than 100) and nothing else of it
\* changed, the offspring has the parent's role, energy 100 and age 0; when it
\* yields none the parent is unchanged.
C5_Reproduce ==
    call.op = "reproduce" =>
       /\ call.before.energy <= Milli(150) => call.child = <<>>
       /\ call.child # <<>> =>
             /\ Len(call.child) = 1
             /\ call.after.energy = call.before.energy - Milli(50)
             /\ call.after.energy > Milli(100)
             /\ call.after = [call.before EXCEPT !.energy = call.after.energy]
             /\ call.child[1].is_predator = call.before.is_predator
             /\ call.child[1].energy = Milli(100)
             /\ call.child[1].age = 0
       /\ call.child = <<>> => call.after = call.before

\* a reproduce that yielded an offspring, from a parent well above the threshold
C5_Witness ==
    /\ call.op = "reproduce"
    /\ call.child # <<>>
    /\ call.before.energy = Milli(200)
    /\ call.before.is_predator

\* C7: after move the entity is within [radius, WIDTH - radius] and
\* [radius, HEIGHT - radius], wherever it started and whatever the target,
\* and its energy is lower by exactly 0.05 * speed * Size.
C7_MoveStaysInside ==
    call.op = "move" =>
       /\ Tenths(call.after.radius) <= call.after.x
       /\ call.after.x <= Tenths(WIDTH - call.after.radius)
       /\ Tenths(call.after.radius) <= call.after.y
       /\ call.after.y <= Tenths(HEIGHT - call.after.radius)
       /\ 2 * (call.before.energy - call.after.energy)
            = call.before.speed * call.before.traits.Size

\* a move from outside the world whose target is the entity's own position
C7_Witness ==
    /\ call.op = "move"
    /\ call.before.x < 0
    /\ call.before.y > Tenths(HEIGHT)
    /\ call.tx = call.before.x
    /\ call.ty = call.before.y
    /\ call.before.radius > 0

\* C14: every trait of an offspring returned by reproduce is the parent's
\* value plus a perturbation in [-0.1, 0.1], clamped to [0.1, 2.0], with no
\* further mutation: it is within 0.1 of the parent's value.
\* (Violated: the offspring's Entity.__init__ runs the mutation loop on the
\* traits it is given, which can add up to 0.2 more.)
C14_OffspringWithinTenth ==
    (call.op = "reproduce" /\ call.child # <<>>) =>
       \A n \in TRAIT_NAMES :
          /\ call.child[1].traits[n] - call.before.traits[n] <= 1
          /\ call.before.traits[n] - call.child[1].traits[n] <= 1

----------------------------------------------------------------------------
(* Properties of the update *)

IdSet(es) == {es[k].id : k \in 1..Len(es)}

\* C1: after every completed update from the founder configuration there are
\* at least 5 prey and at least 2 predators.
\* (Violated: each floor adds one agent, however far below the floor the
\* count has fallen.)
C1_PopulationFloor ==
    tick.done => Len(preys) >= 5 /\ Len(predators) >= 2

\* C4: a phase visits only the agents that were in its collection when the
\* phase started; an offspring appended during the phase is not visited.
\* (Violated: the loop walks the live list and reaches what was appended.)
C4_OffspringNotVisited ==
    tick.done =>
       /\ \A k \in 1..Len(tick.preyVisits) :
             tick.preyVisits[k].id \in IdSet(tick.culled.preys)
       /\ \A k \in 1..Len(tick.predVisits) :
             tick.predVisits[k].id \in IdSet(tick.afterPreys.predators)


\* C2: after every completed update no agent of either collection is dead:
\* each has energy > 0 and age < max_age.
\* (Violated: culling comes before the movement cost of the same update.)
C2_NoDeadAfterTick ==
    tick.done =>
       /\ \A k \in 1..Len(preys) :
             preys[k].energy > 0 /\ preys[k].age < preys[k].max_age
       /\ \A k \in 1..Len(predators) :
             predators[k].energy > 0 /\ predators[k].age < predators[k].max_age

NoDuplicates(q) == \A i, j \in 1..Len(q) : q[i] = q[j] => i = j

\* the energy a visit leaves: the movement cost paid once, the gain if the
\* visit took something, 50 paid if it bore an offspring
EnergyAfterVisit(v, gain) ==
    v.before.energy - (v.before.speed * v.before.traits.Size) \div 2
      + (IF v.took # <<>> THEN gain ELSE 0)
      - (IF v.child # <<>> THEN Milli(50) ELSE 0)

Consuming(visits) == {k \in 1..Len(visits) : visits[k].took # <<>>}

\* C6: a food item is removed at most once over the run and by one prey, the
\* prey gains exactly 20 in the update of the consumption, a prey consumes at
\* most one item per update, and a consumed item is in the food collection
\* no more.
C6_FoodOneToOne ==
    /\ NoDuplicates(consumed)
    /\ \A k \in 1..Len(foods) : \A j \in 1..Len(consumed) : foods[k].id # consumed[j]
    /\ tick.done =>
          /\ \A k \in 1..Len(tick.preyVisits) :
                LET v == tick.preyVisits[k]
                IN  /\ Len(v.took) <= 1
                    /\ v.took # <<>> => v.took[1] \in IdSet(tick.foods)
                    /\ v.after.energy = EnergyAfterVisit(v, Milli(20))
          /\ NoDuplicates([k \in 1..Len(tick.preyVisits) |-> tick.preyVisits[k].id])
          /\ Len(foods) = Len(tick.foods) - Cardinality(Consuming(tick.preyVisits))

\* two prey consumed two different items in one update
C6_Witness ==
    /\ tick.done
    /\ \E i, j \in Consuming(tick.preyVisits) :
          /\ tick.preyVisits[i].id # tick.preyVisits[j].id
          /\ tick.preyVisits[i].took # tick.preyVisits[j].took

Living(e) == e.energy > 0 /\ e.age < e.max_age

\* cu holds exactly the living agents of up, in the order of up
KeepsTheLiving(up, cu) ==
    /\ \A j \in 1..Len(cu) : Living(cu[j])
    /\ \A j \in 1..Len(cu) : \E k \in 1..Len(up) : up[k] = cu[j]
    /\ \A k \in 1..Len(up) : Living(up[k]) => \E j \in 1..Len(cu) : cu[j] = up[k]
    /\ \A i, j \in 1..Len(cu) :
          i < j => \E a, b \in 1..Len(up) : a < b /\ up[a] = cu[i] /\ up[b] = cu[j]

\* C8: right after the culling step no agent with energy <= 0 or
\* age >= max_age (as the upkeep of this update left them) is in its
\* collection, and every other agent is, in its original relative order.
C8_Culling ==
    tick.done =>
       /\ KeepsTheLiving(tick.upkept.preys, tick.culled.preys)
       /\ KeepsTheLiving(tick.upkept.predators, tick.culled.predators)

\* an update that culled a starved prey, kept another prey, and culled a
\* predator that reached its max_age
C8_Witness ==
    /\ tick.done
    /\ \E k \in 1..Len(tick.upkept.preys) : tick.upkept.preys[k].energy <= 0
    /\ Len(tick.culled.preys) >= 1
    /\ \E k \in 1..Len(tick.upkept.predators) :
          /\ tick.upkept.predators[k].age >= tick.upkept.predators[k].max_age
          /\ tick.upkept.predators[k].energy > 0
    /\ tick.culled.predators = <<>>

----------------------------------------------------------------------------
(* The predator phase *)

\* the visit ended with the agent less than the sum of the radii from its target
WithinReach(v) ==
    (v.after.x - v.target[1].x) * (v.after.x - v.target[1].x)
      + (v.after.y - v.target[1].y) * (v.after.y - v.target[1].y)
      < Tenths(v.after.radius + v.target[1].radius)
          * Tenths(v.after.radius + v.target[1].radius)

\* C12: in the predator phase a predator whose distance, after its move, to
\* the prey it chose is below the sum of their radii captures that prey: the
\* prey is removed from the prey collection and the predator gains exactly
\* 30 (less its movement cost, and 50 if it reproduces).  Within one update
\* no prey is captured twice, a predator captures at most one prey, and the
\* prey collection shrinks in the phase by the number of captures.
C12_Capture ==
    tick.done =>
       /\ \A k \in 1..Len(tick.predVisits) :
             LET v == tick.predVisits[k]
             IN  /\ Len(v.took) <= 1
                 /\ v.target = <<>> => v.took = <<>>
                 /\ v.target # <<>> =>
                       /\ v.target[1].id \in IdSet(tick.afterPreys.preys)
                       /\ v.took = IF WithinReach(v) THEN <<v.target[1].id>> ELSE <<>>
                 /\ v.took # <<>> =>
                       /\ v.removed
                       /\ v.took[1] \notin IdSet(tick.afterPreds.preys)
                       /\ v.took[1] \notin IdSet(preys)
                 /\ v.after.energy = EnergyAfterVisit(v, Milli(30))
       /\ NoDuplicates([k \in 1..Len(tick.predVisits) |-> tick.predVisits[k].id])
       /\ \A i, j \in Consuming(tick.predVisits) :
             tick.predVisits[i].took = tick.predVisits[j].took => i = j
       /\ Len(tick.afterPreds.preys)
            = Len(tick.afterPreys.preys) - Cardinality(Consuming(tick.predVisits))

\* two predators captured two different prey in one update
C12_Witness ==
    /\ tick.done
    /\ \E i, j \in Consuming(tick.predVisits) :
          /\ tick.predVisits[i].id # tick.predVisits[j].id
          /\ tick.predVisits[i].took # tick.predVisits[j].took
    /\ Len(tick.afterPreds.preys) = Len(tick.afterPreys.preys) - 2

\* the visits of one phase: no agent twice, at most one offspring per visit,
\* and the energy of the agent after the visit is its energy before less one
\* movement cost, plus the gain if it took something, less 50 if it
\* reproduced
OncePerAgent(visits, gain) ==
    /\ NoDuplicates([k \in 1..Len(visits) |-> visits[k].id])
    /\ \A k \in 1..Len(visits) :
          /\ Len(visits[k].child) <= 1
          /\ Len(visits[k].took) <= 1
          /\ visits[k].after.energy = EnergyAfterVisit(visits[k], gain)
          /\ visits[k].after.age = visits[k].before.age

\* C13: within one update every agent the prey or the predator phase
\* processes is processed once: it pays the cost of one move, it reproduces
\* at most once (one offspring at most, 50 paid once), and no agent is
\* visited twice, also when offspring are appended and captured prey removed
\* during the update.  Every agent that was in its collection when its phase
\* began, and is not captured before, is processed.
C13_OncePerAgent ==
    tick.done =>
       /\ OncePerAgent(tick.preyVisits, Milli(20))
       /\ OncePerAgent(tick.predVisits, Milli(30))
       /\ \A k \in 1..Len(tick.culled.preys) :
             \E j \in 1..Len(tick.preyVisits) :
                tick.preyVisits[j].id = tick.culled.preys[k].id
       /\ \A k \in 1..Len(tick.afterPreys.predators) :
             \E j \in 1..Len(tick.predVisits) :
                tick.predVisits[j].id = tick.afterPreys.predators[k].id
       /\ IdSet(tick.preyVisits) \cap IdSet(tick.predVisits) = {}

\* an update in which a predator captured a prey and another bore an
\* offspring that the same phase went on to visit
C13_Witness ==
    /\ tick.done
    /\ \E k \in 1..Len(tick.predVisits) : tick.predVisits[k].removed
    /\ \E k, j \in 1..Len(tick.predVisits) :
          /\ tick.predVisits[k].child # <<>>
          /\ tick.predVisits[j].id = tick.predVisits[k].child[1]
          /\ k < j

\* C15: the replenishment step of an update adds at most one food item, and
\* exactly one when fewer than 10 items are present at the step; the item is
\* a new one, appended, of energy 20 and radius 3, placed within the world.
\* So the food collection is not empty when the prey phase begins, and after
\* the update it holds at most one item more than before it.
C15_Replenishment ==
    tick.done =>
       /\ \/ tick.foods = tick.before.foods
          \/ /\ Len(tick.foods) = Len(tick.before.foods) + 1
             /\ SubSeq(tick.foods, 1, Len(tick.before.foods)) = tick.before.foods
             /\ LET f == tick.foods[Len(tick.foods)]
                IN  /\ f.id \notin IdSet(tick.before.foods)
                    /\ f.energy = Milli(20)
                    /\ f.radius = 3
                    /\ 0 <= f.x /\ f.x <= Tenths(WIDTH)
                    /\ 0 <= f.y /\ f.y <= Tenths(HEIGHT)
       /\ Len(tick.before.foods) < 10 => Len(tick.foods) = Len(tick.before.foods) + 1
       /\ tick.foods # <<>>
       /\ Len(foods) <= Len(tick.before.foods) + 1

\* an update that found nine items and made them ten, then lost one to the prey
C15_Witness ==
    /\ tick.done
    /\ Len(tick.before.foods) = 9
    /\ Len(tick.foods) = 10
    /\ Len(foods) = 9

\* C16: from the founder configuration, every update leaves max_preys and
\* max_predators at least what they were, and at least the number of prey
\* and of predators in the collections when the update ends (the agents the
\* population floor spawned included); each maximum is the greater of its
\* old value and the count at the end of the phases; generation grows by
\* exactly 1.
C16_Statistics ==
    [][ /\ max_preys' >= max_preys
        /\ max_predators' >= max_predators
        /\ max_preys' >= Len(preys')
        /\ max_predators' >= Len(predators')
        /\ max_preys' >= Len(tick'.afterPreds.preys)
        /\ max_predators' >= Len(tick'.afterPreds.predators)
        /\ max_preys' \in {max_preys, Len(tick'.afterPreds.preys)}
        /\ max_predators' \in {max_predators, Len(tick'.afterPreds.predators)}
        /\ generation' = generation + 1 ]_vars

\* the third update or a later one ended with fewer than 5 prey, the floor
\* spawned one, and the predators had grown beyond their founding number
C16_Witness ==
    /\ tick.done
    /\ generation >= 3
    /\ Len(tick.afterPreds.preys) < 5
    /\ Len(preys) = Len(tick.afterPreds.preys) + 1
    /\ max_preys >= 15
    /\ max_predators > 5

\* the prey's Camouflage is 1.0 or more
Camouflaged(e) == e.camouflage >= 10

\* C18: a prey whose Camouflage is 1.0 or more is perceived by no predator at
\* any distance: it never flees, no predator chooses it as its target or
\* captures it, it lives through both phases of every update, and it leaves
\* the prey collection only in the culling, when its energy is 0 or less or
\* its age is max_age or more.
C18_CamouflagedUnseen ==
    tick.done =>
       /\ \A k \in 1..Len(tick.preyVisits) :
             Camouflaged(tick.preyVisits[k].before) =>
                tick.preyVisits[k].branch # "flee"
       /\ \A k \in 1..Len(tick.predVisits) :
             tick.predVisits[k].target # <<>> =>
                ~Camouflaged(tick.predVisits[k].target[1])
       /\ \A k \in 1..Len(tick.culled.preys) :
             Camouflaged(tick.culled.preys[k]) =>
                tick.culled.preys[k].id \in IdSet(preys)
       /\ \A k \in 1..Len(tick.before.preys) :
             (Camouflaged(tick.before.preys[k])
                /\ tick.before.preys[k].id \notin IdSet(preys)) =>
                   ~Living(tick.upkept.preys[k])
       /\ \A k \in 1..Len(preys) : \A j \in 1..Len(predators) :
             Camouflaged(preys[k]) => ~can_see(predators[j], preys[k], TRUE)

\* an update in which a prey of Camouflage 1.0 or more stood within 100 of a
\* predator that captured another prey
C18_Witness ==
    /\ tick.done
    /\ \E k \in 1..Len(tick.preyVisits) : \E j \in 1..Len(tick.predVisits) :
          /\ Camouflaged(tick.preyVisits[k].before)
          /\ tick.preyVisits[k].branch = "forage"
          /\ tick.predVisits[j].removed
          /\ DistSq(tick.preyVisits[k].after.x, tick.preyVisits[k].after.y,
                    tick.predVisits[j].before.x, tick.predVisits[j].before.y)
               < Tenths(100) * Tenths(100)

\* the agents of both collections
Agents == [k \in 1..(Len(preys) + Len(predators)) |->
              IF k <= Len(preys) THEN preys[k] ELSE predators[k - Len(preys)]]

\* the upkeep made every agent of es one tick older and left its max_age
AgedByOne(es, up) ==
    /\ Len(up) = Len(es)
    /\ \A k \in 1..Len(es) :
          /\ up[k].id = es[k].id
          /\ up[k].age = es[k].age + 1
          /\ up[k].max_age = es[k].max_age
          /\ up[k].age <= up[k].max_age

\* no agent of up that has reached its max_age is in the collection cu
NoneOutlives(up, cu) ==
    \A k \in 1..Len(up) : up[k].age >= up[k].max_age => up[k].id \notin IdSet(cu)

\* what bounds the life of every agent
Ageing ==
    /\ \A k \in 1..Len(Agents) :
          /\ 500 <= Agents[k].max_age /\ Agents[k].max_age <= 1000
          /\ 0 <= Agents[k].age /\ Agents[k].age < Agents[k].max_age
    /\ tick.done =>
          /\ AgedByOne(tick.before.preys, tick.upkept.preys)
          /\ AgedByOne(tick.before.predators, tick.upkept.predators)
          /\ NoneOutlives(tick.upkept.preys, tick.culled.preys)
          /\ NoneOutlives(tick.upkept.predators, tick.culled.predators)
          /\ NoneOutlives(tick.upkept.preys, preys)
          /\ NoneOutlives(tick.upkept.predators, predators)
          /\ \A k \in 1..Len(Agents) :
                \A j \in 1..Len(tick.before.preys) :
                   Agents[k].id = tick.before.preys[j].id =>
                      /\ Agents[k].age = tick.before.preys[j].age + 1
                      /\ Agents[k].max_age = tick.before.preys[j].max_age
          /\ \A k \in 1..Len(Agents) :
                \A j \in 1..Len(tick.before.predators) :
                   Agents[k].id = tick.before.predators[j].id =>
                      /\ Agents[k].age = tick.before.predators[j].age + 1
                      /\ Agents[k].max_age = tick.before.predators[j].max_age

\* the agent id is in a collection, one tick short of its max_age, and an
\* update is still to come
InLastTick(id) ==
    /\ generation < MaxGen
    /\ \E k \in 1..Len(Agents) :
          Agents[k].id = id /\ Agents[k].age = Agents[k].max_age - 1

Gone(id) == \A k \in 1..Len(Agents) : Agents[k].id # id

\* C19: an agent's age grows by exactly 1 in each update it is present at the
\* upkeep of, its max_age is in [500, 1000] and does not change, and it is
\* culled no later than the update in which its age reaches max_age: no
\* agent in a collection has an age greater than its max_age (nor equal to
\* it once the update has ended), so while updates go on every agent is
\* removed in the end, after at most 1000 upkeep steps.  An agent one tick
\* short of its max_age is gone once the next update has been made.
C19_Mortal ==
    /\ []Ageing
    /\ \A id \in 1..4 : InLastTick(id) ~> Gone(id)

\* an update that culled a predator whose age had reached its max_age with
\* energy left, and aged a prey that lives on
C19_Witness ==
    /\ tick.done
    /\ \E k \in 1..Len(tick.upkept.predators) :
          /\ tick.upkept.predators[k].age = tick.upkept.predators[k].max_age
          /\ tick.upkept.predators[k].energy > Milli(50)
          /\ tick.upkept.predators[k].id \notin IdSet(predators)
    /\ \E k \in 1..Len(preys) : \E j \in 1..Len(tick.before.preys) :
          /\ preys[k].id = tick.before.preys[j].id
          /\ preys[k].age = tick.before.preys[j].age + 1

----------------------------------------------------------------------------
(* The one-prey scenarios *)

\* the visit the prey phase of the last update paid to the agent id
PreyVisit(id) ==
    tick.preyVisits[CHOOSE k \in 1..Len(tick.preyVisits) : tick.preyVisits[k].id = id]

\* the last update started with one prey, which lived through the culling,
\* with no predator and with n food items
OnePreyTick(n) ==
    /\ tick.done
    /\ Len(tick.before.preys) = 1
    /\ Len(tick.culled.preys) = 1
    /\ tick.before.predators = <<>>
    /\ Len(tick.before.foods) = n

\* C9 as stated: with one prey, no food and no predator the update makes the
\* prey wander, and costs it the upkeep and one movement cost.
C9_Wanders ==
    OnePreyTick(0) =>
       LET p == tick.before.preys[1]
           v == PreyVisit(p.id)
       IN  /\ v.branch = "wander"
           /\ v.after.energy = p.energy - 100 - (p.speed * p.traits.Size) \div 2

\* C9 as amended: with one prey, no food and no predator the replenishment
\* step adds a food item before the prey phase, so the prey is visited once
\* and forages (one move toward the new item); its energy falls by the
\* upkeep and one movement cost, rises by 20 if it reaches and consumes the
\* item, and falls by 50 if it then reproduces.
C9_ForagesForNewFood ==
    OnePreyTick(0) =>
       LET p == tick.before.preys[1]
           v == PreyVisit(p.id)
       IN  /\ Len(tick.foods) = 1
           /\ Cardinality({k \in 1..Len(tick.preyVisits) :
                              tick.preyVisits[k].id = p.id}) = 1
           /\ v.branch = "forage"
           /\ v.before.energy = p.energy - 100
           /\ v.after.energy = EnergyAfterVisit(v, Milli(20))

\* the plain case: the prey foraged without reaching the item or reproducing
C9_Witness ==
    /\ OnePreyTick(0)
    /\ PreyVisit(tick.before.preys[1].id).branch = "forage"
    /\ PreyVisit(tick.before.preys[1].id).took = <<>>
    /\ PreyVisit(tick.before.preys[1].id).child = <<>>
    /\ tick.before.preys[1].energy = Milli(100)

\* the last update started with one prey and one food item at the same place
PreyOnFoodTick ==
    /\ OnePreyTick(1)
    /\ tick.before.foods[1].x = tick.before.preys[1].x
    /\ tick.before.foods[1].y = tick.before.preys[1].y

\* C10 as stated: the prey consumes the item under it, the food collection is
\* one smaller than before the update, and the prey has gained 20 less the
\* upkeep and the movement cost.
C10_ConsumesAndShrinks ==
    PreyOnFoodTick =>
       LET p == tick.before.preys[1]
           v == PreyVisit(p.id)
       IN  /\ v.took = <<tick.before.foods[1].id>>
           /\ Len(foods) = Len(tick.before.foods) - 1
           /\ v.after.energy
                = p.energy + Milli(20) - 100 - (p.speed * p.traits.Size) \div 2

\* where the bounds of move put a coordinate c of an agent of radius r
Bounded(c, r, bound) ==
    IF c < Tenths(r) THEN Tenths(r)
    ELSE IF c > Tenths(bound - r) THEN Tenths(bound - r) ELSE c

\* C10 as amended: the prey forages for the item under it and consumes it
\* exactly when the place move bounds it to is less than radius + 3 from P,
\* which is so whenever P is at least the radius from every edge (at a corner
\* a prey of radius 8 or more is carried out of reach).  The replenishment
\* step has added an item before, so the food collection holds one item more
\* than before the update less the items consumed in it: as many as before
\* when the prey consumes.  The prey's energy is its energy before the update
\* less the upkeep and the movement cost, plus 20 if it consumed, less 50 if
\* it reproduced.
C10_ConsumesWithinReach ==
    PreyOnFoodTick =>
       LET p == tick.before.preys[1]
           f == tick.before.foods[1]
           v == PreyVisit(p.id)
           bx == Bounded(p.x, p.radius, WIDTH)
           by == Bounded(p.y, p.radius, HEIGHT)
           reach == (bx - f.x) * (bx - f.x) + (by - f.y) * (by - f.y)
                      < Tenths(p.radius + 3) * Tenths(p.radius + 3)
       IN  /\ Len(tick.foods) = 2
           /\ v.branch = "forage"
           /\ v.took = IF reach THEN <<f.id>> ELSE <<>>
           /\ (bx = p.x /\ by = p.y) => reach
           /\ reach => f.id \notin IdSet(foods)
           /\ Len(foods) = 2 - Cardinality(Consuming(tick.preyVisits))
           /\ v.before.energy = p.energy - 100
           /\ v.after.energy = EnergyAfterVisit(v, Milli(20))

\* a prey on the edge of the world that consumed the item under it, and the
\* food collection is as large as before
C10_Witness ==
    /\ PreyOnFoodTick
    /\ tick.before.preys[1].x = 0
    /\ PreyVisit(tick.before.preys[1].id).took = <<tick.before.foods[1].id>>
    /\ Len(foods) = 1

----------------------------------------------------------------------------
(* The main loop *)

\* the identities of the objects a simulation holds
ObjectIds(s) == IdSet(s.preys) \cup IdSet(s.predators) \cup IdSet(s.foods)

\* s is what Simulation() constructs: 20 prey, 5 predators, 30 food items,
\* the three counters 0, every agent of its role with energy 100 and age 0
IsFounderConfiguration(s) ==
    /\ Len(s.preys) = 20
    /\ Len(s.predators) = 5
    /\ Len(s.foods) = 30
    /\ s.generation = 0
    /\ s.max_preys = 0
    /\ s.max_predators = 0
    /\ \A k \in 1..Len(s.preys) :
          s.preys[k].energy = Milli(100) /\ s.preys[k].age = 0
            /\ ~s.preys[k].is_predator
    /\ \A k \in 1..Len(s.predators) :
          s.predators[k].energy = Milli(100) /\ s.predators[k].age = 0
            /\ s.predators[k].is_predator

\* C11: a reset (the R key constructing a fresh Simulation), from any state
\* the loop reaches, yields exactly 20 prey, 5 predators and 30 food items,
\* generation and both maxima 0, every agent with energy 100 and age 0, and
\* no object of the previous simulation is in the new one; the new simulation
\* is what the loop goes on with (it is the state if the frame is paused, and
\* what the frame's update starts from if it is not).
C11_ResetIsFresh ==
    (frames > 0 /\ frame.reset) =>
       /\ IsFounderConfiguration(frame.handled)
       /\ ObjectIds(frame.handled) \cap ObjectIds(frame.before) = {}
       /\ Cardinality(ObjectIds(frame.handled)) = 55
       /\ paused => Simulation = frame.handled
       /\ ~paused =>
             /\ tick.done
             /\ tick.before.preys = frame.handled.preys
             /\ tick.before.predators = frame.handled.predators
             /\ tick.before.foods = frame.handled.foods
             /\ generation = 1

\* a reset of a simulation that an update had changed: it had lost prey, its
\* counters were not 0, its agents had aged
C11_Witness ==
    /\ frames > 0
    /\ frame.reset
    /\ frame.before.generation >= 1
    /\ Len(frame.before.preys) < 20
    /\ frame.before.max_preys > 0
    /\ frame.before.max_predators > 0
    /\ \E k \in 1..Len(frame.before.preys) :
          frame.before.preys[k].age > 0 /\ frame.before.preys[k].energy # Milli(100)

\* C17: a frame that is paused when the loop reaches its test makes no
\* update: generation, the three collections and the maxima are as the
\* frame found them, or as the reset of the frame made them; a frame that is
\* not paused makes exactly one update, on the simulation as the events of
\* the frame left it.
C17_PausedSkipsUpdate ==
    frames > 0 =>
       /\ ~frame.reset => frame.handled = frame.before
       /\ paused =>
             /\ Simulation = frame.handled
             /\ ~frame.reset =>
                   /\ generation = frame.before.generation
                   /\ preys = frame.before.preys
                   /\ predators = frame.before.predators
                   /\ foods = frame.before.foods
                   /\ max_preys = frame.before.max_preys
                   /\ max_predators = frame.before.max_predators
       /\ ~paused =>
             /\ generation = frame.handled.generation + 1
             /\ tick.done
             /\ tick.before.preys = frame.handled.preys
             /\ tick.before.predators = frame.handled.predators
             /\ tick.before.foods = frame.handled.foods

\* the second of two paused frames in a row, with no reset: nothing changed
C17_Witness ==
    /\ frames >= 2
    /\ paused
    /\ frame.wasPaused
    /\ ~frame.reset
    /\ Simulation = frame.before

====
